---- MODULE Spec2Model ----
(***************************************************************************)
(* Model of commands.py of the WebDrive module for the play framework:     *)
(* the function test(app, args) that cleans tmp/, asks a running server to *)
(* stop, parses the command-line flags, starts the application server,     *)
(* waits for the readiness string in system.out, runs WebDriverRunner,     *)
(* asks the server to stop again and inspects the marker files.            *)
(*                                                                         *)
(* The script is sequential; pc is its position.  The server process, the  *)
(* test runner process and the marker files are the environment.           *)
(***************************************************************************)
EXTENDS Integers, Sequences, FiniteSets, TLC

(* ---- bounds ---- *)
MaxArgs == 3      \* longest command-line argument list
MaxLog  == 1      \* most lines of system.out written and not yet read

(* ---- command-line tokens ---- *)
Flags == {"--unit", "--functional", "--selenium"}
PhantomLong  == "--phantomjs=/ph"     \* --phantomjs=<path> as one argument
PhantomShort == "-p"                  \* -p, followed by <path>
PhantomPath  == "/ph"                 \* <path>; also the one non-option token
Tokens == Flags \cup {PhantomLong, PhantomShort, PhantomPath}

RECURSIVE SeqsUpTo(_, _)
SeqsUpTo(S, n) ==
    IF n = 0 THEN {<<>>}
    ELSE LET shorter == SeqsUpTo(S, n - 1)
         IN  shorter \cup {Append(s, x) : s \in {t \in shorter : Len(t) = n - 1}, x \in S}

ArgLists == SeqsUpTo(Tokens, MaxArgs)

(* ---- configuration (application.conf) ---- *)
HttpPort  == "9000"                   \* value of http.port
HttpsPorts == {"", "9443"}            \* value of https.port; "" when not set

(* ---- list helpers (Python list methods) ---- *)
Count(s, x) == Cardinality({i \in 1..Len(s) : s[i] = x})

RECURSIVE Remove(_, _)
\* list.remove(x): delete the first occurrence of x
Remove(s, x) ==
    IF s = <<>> THEN <<>>
    ELSE IF Head(s) = x THEN Tail(s)
    ELSE <<Head(s)>> \o Remove(Tail(s), x)

Drop(s, n) == SubSeq(s, n + 1, Len(s))

(* ---- getopt.getopt(args, "p:", ["phantomjs="]) ---- *)
RECURSIVE GetOpt(_)
GetOpt(a) ==
    IF a = <<>> \/ Head(a) = PhantomPath
    THEN [err |-> FALSE, opts |-> <<>>]             \* first non-option stops the scan
    ELSE IF Head(a) = PhantomLong
    THEN LET r == GetOpt(Tail(a))
         IN  [err |-> r.err, opts |-> <<(<<"--phantomjs", PhantomPath>>)>> \o r.opts]
    ELSE IF Head(a) = PhantomShort
    THEN IF Len(a) = 1
         THEN [err |-> TRUE, opts |-> <<>>]         \* option -p requires argument
         ELSE LET r == GetOpt(Drop(a, 2))
              IN  [err |-> r.err, opts |-> <<(<<"-p", a[2]>>)>> \o r.opts]
    ELSE [err |-> TRUE, opts |-> <<>>]              \* option --unit etc. not recognized

\* opt in ("--phantomjs"): the parentheses do not make a tuple, so this is a
\* substring test against the string "--phantomjs"; "-p" is a substring of it.
OptInPhantomjs(opt) == opt \in {"-p", "--phantomjs"}

PhantomOption(arg) == <<"-Dphantomjs.binary.path", arg>>

RECURSIVE ApplyOpts(_, _, _)
\* for opt, arg in opts: add_options.append(...); args.remove(args[0])
ApplyOpts(opts, a, add) ==
    IF opts = <<>> THEN [args |-> a, add_options |-> add]
    ELSE IF OptInPhantomjs(Head(opts)[1])
    THEN ApplyOpts(Tail(opts), Remove(a, a[1]), Append(add, PhantomOption(Head(opts)[2])))
    ELSE ApplyOpts(Tail(opts), a, add)

\* the try block of lines 82-92; in Python 2 a tab indents to column 8, so
\* the block belongs to the body of "if args.count('--selenium')"
ParsePhantom(a, add) ==
    LET r == GetOpt(a)
    IN  IF r.err THEN [args |-> a, add_options |-> add]
        ELSE ApplyOpts(r.opts, a, add)

FlagOption(f) ==
    IF f = "--unit" THEN <<"-DrunUnitTests", "true">>
    ELSE IF f = "--functional" THEN <<"-DrunFunctionalTests", "true">>
    ELSE <<"-DrunSeleniumTests", "true">>

\* one "if args.count(F): args.remove(F); add_options.append(...)" block
TakeFlag(st, f) ==
    IF Count(st.args, f) > 0
    THEN [args |-> Remove(st.args, f), add_options |-> Append(st.add_options, FlagOption(f))]
    ELSE st

\* lines 68-92: the whole "read parameters" section
ReadParameters(a) ==
    LET s0 == [args |-> a, add_options |-> <<>>]
        s1 == TakeFlag(s0, "--unit")
        s2 == TakeFlag(s1, "--functional")
    IN  IF Count(s2.args, "--selenium") > 0
        THEN LET s3 == TakeFlag(s2, "--selenium")
             IN  ParsePhantom(s3.args, s3.add_options)
        ELSE s2

(* ---- state ---- *)
VARIABLES
    pc,           \* position of the script
    argv,         \* the argument list as execute() received it
    leftover,     \* the marker files a previous run left behind
    https_port,   \* app.readConf('https.port')
    args,         \* the argument list (mutated in place)
    add_options,  \* options collected for the test runner
    http_port,    \* local http_port
    protocol,     \* local protocol
    tmp,          \* TRUE iff <app>/tmp exists
    marker,       \* test-result/result.passed and result.failed
    server,       \* the play process: "none", "running", "exit0", "exit1"
    unread,       \* lines of system.out the script has not read yet
    line,         \* local line: the last line read ("" when none)
    runner,       \* the WebDriverRunner process
    runnerSpawns, \* number of times the runner was spawned
    server_cmd,   \* the arguments given to app.java_cmd for the server
    runner_cmd,   \* options and application.url of the runner command
    kills,        \* the /@kill requests issued, with their outcome
    exitCode,     \* exit code, meaningful when pc = "exited"
    msg,          \* the last diagnostic printed before an exit
    trace         \* the steps of the script performed so far

vars == <<pc, argv, leftover, https_port, args, add_options, http_port, protocol, tmp, marker,
          server, unread, line, runner, runnerSpawns, server_cmd, runner_cmd,
          kills, exitCode, msg, trace>>

MarkerFiles == {"result.passed", "result.failed"}
NoRunnerCmd == [options |-> <<>>, url |-> <<"", "">>]

Init ==
    /\ pc = "start"
    /\ https_port \in HttpsPorts
    /\ argv \in ArgLists
    /\ args = argv
    /\ leftover \in SUBSET MarkerFiles
    /\ add_options = <<>>
    /\ http_port = "9000"
    /\ protocol = "http"
    /\ tmp \in BOOLEAN
    /\ marker = [f \in MarkerFiles |-> IF f \in leftover THEN "stale" ELSE "absent"]
    /\ server = "none"
    /\ unread = <<>>
    /\ line = ""
    /\ runner = "none"
    /\ runnerSpawns = 0
    /\ server_cmd = <<>>
    /\ runner_cmd = NoRunnerCmd
    /\ kills = <<>>
    /\ exitCode = 0
    /\ msg = ""
    /\ trace = <<>>

\* sys.exit(code) after printing m
Exit(code, m) ==
    /\ pc' = "exited"
    /\ exitCode' = code
    /\ msg' = m

(* ---- the script ---- *)

\* variant: the exception of a failed request is not caught
AfterKillRaises(ok, next) == IF ok THEN next ELSE "exited"

\* "except Exception, e: pass": the script goes on whatever opener.open did
AfterKill(ok, next) == next

\* variant: the directory is left as it is
RmTreeKeeps(m) == m

\* shutil.rmtree(test_result): every file of the directory is gone
RmTree(m) == [f \in MarkerFiles |-> "absent"]

\* variant: tmp/ is not cleaned
DeleteTmpSkipped ==
    /\ pc = "start"
    /\ pc' = "prekill"
    /\ UNCHANGED <<argv, leftover, https_port, args, add_options, http_port, protocol,
                   tmp, marker, server, unread, line, runner, runnerSpawns, server_cmd,
                   runner_cmd, kills, exitCode, msg, trace>>

\* lines 48-51
DeleteTmp ==
    /\ pc = "start"
    /\ tmp' = FALSE
    /\ trace' = Append(trace, "rm_tmp")
    /\ pc' = "prekill"
    /\ UNCHANGED <<argv, leftover, https_port, args, add_options, http_port, protocol, marker, server,
                   unread, line, runner, runnerSpawns, server_cmd, runner_cmd, kills,
                   exitCode, msg>>

\* lines 53-66; ok is the outcome of opener.open
PreKill ==
    /\ pc = "prekill"
    /\ IF https_port # ""
       THEN http_port' = https_port /\ protocol' = "https"
       ELSE http_port' = HttpPort /\ protocol' = "http"
    /\ \E ok \in BOOLEAN :
         /\ kills' = Append(kills, [scheme |-> "http", port |-> http_port', ok |-> ok])
         /\ pc' = AfterKill(ok, "parse")
    /\ trace' = Append(trace, "kill")
    /\ UNCHANGED <<argv, leftover, https_port, args, add_options, tmp, marker, server, unread, line,
                   runner, runnerSpawns, server_cmd, runner_cmd, exitCode, msg>>

\* lines 68-92
Parse ==
    /\ pc = "parse"
    /\ LET r == ReadParameters(args)
       IN  /\ args' = r.args
           /\ add_options' = r.add_options
    /\ trace' = Append(trace, "parse")
    /\ pc' = "clean"
    /\ UNCHANGED <<argv, leftover, https_port, http_port, protocol, tmp, marker, server, unread, line,
                   runner, runnerSpawns, server_cmd, runner_cmd, kills, exitCode, msg>>

\* lines 95-97
DeleteTestResult ==
    /\ pc = "clean"
    /\ marker' = RmTree(marker)
    /\ trace' = Append(trace, "rm_result")
    /\ pc' = "spawn"
    /\ UNCHANGED <<argv, leftover, https_port, args, add_options, http_port, protocol, tmp, server,
                   unread, line, runner, runnerSpawns, server_cmd, runner_cmd, kills,
                   exitCode, msg>>

\* lines 98-105; system.out is opened with 'w', so the log starts empty
SpawnServer ==
    /\ pc = "spawn"
    /\ server_cmd' = args
    /\ unread' = <<>>
    /\ \/ /\ server' = "running"
          /\ trace' = Append(trace, "spawn_server")
          /\ pc' = "poll"
          /\ UNCHANGED <<exitCode, msg>>
       \/ /\ Exit(-1, "Could not execute the java executable")     \* OSError
          /\ UNCHANGED <<server, trace>>
    /\ UNCHANGED <<argv, leftover, https_port, args, add_options, http_port, protocol, tmp, marker,
                   line, runner, runnerSpawns, runner_cmd, kills>>

\* play_process.poll(): None while running, else the return code
PollValue == IF server = "exit0" THEN 0 ELSE IF server = "exit1" THEN 1 ELSE -1
\* "if play_process.poll():" is the truth value of that result
PollTruthy == server # "running" /\ PollValue # 0

\* lines 107-111
Poll ==
    /\ pc = "poll"
    /\ IF PollTruthy
       THEN Exit(-1, "Oops, application has not started?")
       ELSE pc' = "readline" /\ UNCHANGED <<exitCode, msg>>
    /\ UNCHANGED <<argv, leftover, https_port, args, add_options, http_port, protocol, tmp, marker,
                   server, unread, line, runner, runnerSpawns, server_cmd, runner_cmd,
                   kills, trace>>

\* variant: any non-empty line ends the wait
IsReadyAnyLine(l) == l # ""

\* line.find('Listening for HTTP') > -1
IsReady(l) == l = "ready"

\* lines 112-117
ReadLine ==
    /\ pc = "readline"
    /\ line' = IF unread = <<>> THEN "" ELSE Head(unread)
    /\ IF line' # "" /\ IsReady(line')
       THEN pc' = "runner" /\ unread' = <<>>          \* soutint.close(); break
       ELSE pc' = "poll" /\ unread' = IF unread = <<>> THEN <<>> ELSE Tail(unread)
    /\ UNCHANGED <<argv, leftover, https_port, args, add_options, http_port, protocol, tmp, marker,
                   server, runner, runnerSpawns, server_cmd, runner_cmd, kills,
                   exitCode, msg, trace>>

\* lines 119-138: build the command and start subprocess.call
RunWebDriver ==
    /\ pc = "runner"
    /\ runner_cmd' = [options |-> add_options, url |-> <<protocol, http_port>>]
    /\ \/ /\ runner' = "running"
          /\ runnerSpawns' = runnerSpawns + 1
          /\ trace' = Append(trace, "spawn_runner")
          /\ pc' = "call"
          /\ UNCHANGED <<exitCode, msg>>
       \/ /\ Exit(-1, "Could not execute web driver.")             \* OSError
          /\ UNCHANGED <<runner, runnerSpawns, trace>>
    /\ UNCHANGED <<argv, leftover, https_port, args, add_options, http_port, protocol, tmp, marker,
                   server, unread, line, server_cmd, kills>>

\* line 135: subprocess.call returns when the runner has terminated
CallReturns ==
    /\ pc = "call"
    /\ runner \in {"exit0", "exit1"}
    /\ pc' = "postkill"
    /\ UNCHANGED <<argv, leftover, https_port, args, add_options, http_port, protocol, tmp, marker,
                   server, unread, line, runner, runnerSpawns, server_cmd, runner_cmd,
                   kills, exitCode, msg, trace>>

\* lines 142-149
PostKill ==
    /\ pc = "postkill"
    /\ http_port' = HttpPort
    /\ \E ok \in BOOLEAN :
         /\ kills' = Append(kills, [scheme |-> protocol, port |-> http_port', ok |-> ok])
         /\ pc' = AfterKill(ok, "inspect")
    /\ trace' = Append(trace, "kill")
    /\ UNCHANGED <<argv, leftover, https_port, args, add_options, protocol, tmp, marker, server, unread,
                   line, runner, runnerSpawns, server_cmd, runner_cmd, exitCode, msg>>

Exists(f) == marker[f] # "absent"

\* variant: result.passed takes precedence over result.failed
InspectCodePassedFirst ==
    IF marker["result.passed"] # "absent" THEN 0
    ELSE IF marker["result.failed"] # "absent" THEN 1 ELSE 0

\* the code the final inspection exits with
InspectCode == IF Exists("result.failed") THEN 1 ELSE 0

\* lines 151-158; falling off the end of test() ends the command with code 0
Inspect ==
    /\ pc = "inspect"
    /\ Exit(InspectCode,
            IF Exists("result.failed") THEN "Some tests have failed"
            ELSE IF Exists("result.passed") THEN "All tests passed" ELSE "")
    /\ trace' = Append(trace, "inspect")
    /\ UNCHANGED <<argv, leftover, https_port, args, add_options, http_port, protocol, tmp, marker,
                   server, unread, line, runner, runnerSpawns, server_cmd, runner_cmd,
                   kills>>

(* ---- the environment ---- *)

\* the server writes a line to system.out; unread is what soutint (opened at
\* line 105, closed at line 116) has still to deliver, so only lines written
\* while the script waits for readiness are kept
ServerWrite ==
    /\ server = "running"
    /\ pc \in {"poll", "readline"}
    /\ Len(unread) < MaxLog
    /\ \E l \in {"other", "ready"} : unread' = Append(unread, l)
    /\ UNCHANGED <<pc, argv, leftover, https_port, args, add_options, http_port, protocol, tmp, marker,
                   server, line, runner, runnerSpawns, server_cmd, runner_cmd, kills,
                   exitCode, msg, trace>>

\* the server process terminates; server is what play_process.poll() reports,
\* and the script calls it only in the wait loop (line 107)
ServerExit ==
    /\ server = "running"
    /\ pc \in {"poll", "readline"}
    /\ \E s \in {"exit0", "exit1"} : server' = s
    /\ UNCHANGED <<pc, argv, leftover, https_port, args, add_options, http_port, protocol, tmp, marker,
                   unread, line, runner, runnerSpawns, server_cmd, runner_cmd, kills,
                   exitCode, msg, trace>>

\* the runner writes a marker file
RunnerWrite ==
    /\ runner = "running"
    /\ \E f \in MarkerFiles :
         /\ marker[f] = "absent"
         /\ marker' = [marker EXCEPT ![f] = "fresh"]
    /\ UNCHANGED <<pc, argv, leftover, https_port, args, add_options, http_port, protocol, tmp, server,
                   unread, line, runner, runnerSpawns, server_cmd, runner_cmd, kills,
                   exitCode, msg, trace>>

\* the runner process terminates
RunnerExit ==
    /\ runner = "running"
    /\ \E s \in {"exit0", "exit1"} : runner' = s
    /\ UNCHANGED <<pc, argv, leftover, https_port, args, add_options, http_port, protocol, tmp, marker,
                   server, unread, line, runnerSpawns, server_cmd, runner_cmd, kills,
                   exitCode, msg, trace>>

Script ==
    \/ DeleteTmp
    \/ PreKill
    \/ Parse
    \/ DeleteTestResult
    \/ SpawnServer
    \/ Poll
    \/ ReadLine
    \/ RunWebDriver
    \/ CallReturns
    \/ PostKill
    \/ Inspect

Next ==
    \/ DeleteTmp
    \/ PreKill
    \/ Parse
    \/ DeleteTestResult
    \/ SpawnServer
    \/ Poll
    \/ ReadLine
    \/ RunWebDriver
    \/ CallReturns
    \/ PostKill
    \/ Inspect
    \/ ServerWrite
    \/ ServerExit
    \/ RunnerWrite
    \/ RunnerExit

Spec == Init /\ [][Next]_vars

\* the interpreter keeps executing the script
FairSpec == Init /\ [][Next]_vars /\ WF_vars(Script)

TypeOK ==
    /\ pc \in {"start", "prekill", "parse", "clean", "spawn", "poll", "readline",
               "runner", "call", "postkill", "inspect", "exited"}
    /\ server \in {"none", "running", "exit0", "exit1"}
    /\ runner \in {"none", "running", "exit0", "exit1"}
    /\ exitCode \in {-1, 0, 1}
    /\ Len(unread) <= MaxLog

(* ---- properties ---- *)

Range(s) == {s[i] : i \in 1..Len(s)}

\* step e has run
Done(e) == \E i \in 1..Len(trace) : trace[i] = e

\* whenever step b has run, step a has run before its first occurrence
Before(a, b) ==
    \A j \in 1..Len(trace) : trace[j] = b => \E i \in 1..(j - 1) : trace[i] = a

\* the script ended at the final marker inspection
Inspected == pc = "exited" /\ trace # <<>> /\ trace[Len(trace)] = "inspect"

ServerCmdBuilt == pc \notin {"start", "prekill", "parse", "clean", "spawn"}
RunnerCmdBuilt == runner_cmd # NoRunnerCmd

\* the server has terminated and no readiness line was ever written
DeadBeforeReady ==
    /\ server \in {"exit0", "exit1"}
    /\ "ready" \notin Range(unread)
    /\ line # "ready"

\* C1: if the spawned server terminates, with any exit status, without the
\* readiness string ever appearing in its log, the script eventually exits
\* with code -1 and never spawns the test runner.
C1_DeadServerIsFatal ==
    /\ [](DeadBeforeReady => runnerSpawns = 0)
    /\ (DeadBeforeReady ~> (pc = "exited" /\ exitCode = -1))

\* C2: the step that performs the final marker inspection exits with code 1
\* if and only if result.failed exists at that moment and with code 0
\* otherwise, whatever result.passed and the runner's exit status are.
C2_ExitCodeFollowsFailedMarker ==
    [][(pc = "inspect" /\ pc' # "inspect") =>
          /\ pc' = "exited"
          /\ (exitCode' = 1 <=> marker["result.failed"] # "absent")
          /\ (exitCode' = 0 <=> marker["result.failed"] = "absent")]_vars

\* C2 witness: the run ended with code 1 with both markers present and a
\* runner that returned 0.
C2_Witness ==
    /\ Inspected
    /\ exitCode = 1
    /\ marker["result.passed"] = "fresh"
    /\ marker["result.failed"] = "fresh"
    /\ runner = "exit0"

\* C3: the test runner is spawned at most once, only after the script read a
\* readiness line from the server it spawned, and never when the server
\* spawn failed or the script left through "application has not started".
C3_RunnerOnlyAfterReady ==
    /\ runnerSpawns <= 1
    /\ Count(trace, "spawn_runner") = runnerSpawns
    /\ (runnerSpawns > 0 => (line = "ready" /\ Before("spawn_server", "spawn_runner")))
    /\ (runner # "none" => runnerSpawns > 0)
    /\ (msg \in {"Could not execute the java executable",
                 "Oops, application has not started?"} => runnerSpawns = 0)

\* C3 witness: the runner runs, the last line read being the readiness line.
C3_Witness == runnerSpawns = 1 /\ runner = "running" /\ line = "ready"

\* the URL the claim expects for the application and the kill requests
ConfiguredUrl == IF https_port # "" THEN <<"https", https_port>> ELSE <<"http", HttpPort>>

\* C4: both /@kill requests go to the scheme and port of application.url:
\* https and https.port when https.port is configured, else http and http.port.
C4_KillUrlIsApplicationUrl ==
    /\ \A i \in 1..Len(kills) : <<kills[i].scheme, kills[i].port>> = ConfiguredUrl
    /\ (RunnerCmdBuilt => runner_cmd.url = ConfiguredUrl)

\* the argument list holds the phantomjs option in one of its two forms
HasPhantomOption(a) ==
    \/ PhantomLong \in Range(a)
    \/ \E i \in 1..(Len(a) - 1) : a[i] = PhantomShort /\ a[i + 1] = PhantomPath

\* C5: when the arguments hold the phantomjs option, with or without
\* --selenium, the runner command has -Dphantomjs.binary.path=<path> and the
\* server's argument list has neither the option nor its path.
C5_PhantomOptionTaken ==
    HasPhantomOption(argv) =>
        /\ (RunnerCmdBuilt => PhantomOption(PhantomPath) \in Range(runner_cmd.options))
        /\ (ServerCmdBuilt =>
               Range(server_cmd) \cap {PhantomLong, PhantomShort, PhantomPath} = {})

\* C6: for each flag F the runner command has F's option exactly once if F
\* is among the arguments and not at all otherwise, and the server's
\* argument list has no occurrence of F.
C6_FlagsTaken ==
    \A f \in Flags :
        /\ (RunnerCmdBuilt =>
               Count(runner_cmd.options, FlagOption(f)) = IF f \in Range(argv) THEN 1 ELSE 0)
        /\ (ServerCmdBuilt => f \notin Range(server_cmd))

\* C7: a failed /@kill request is ignored: the step that issues it never
\* ends the script, and leads to the same next step with the same exit code,
\* message, options and commands whether the request succeeded or failed.
C7_KillFailureIgnored ==
    [][(pc \in {"prekill", "postkill"} /\ pc' # pc) =>
          /\ pc' = (IF pc = "prekill" THEN "parse" ELSE "inspect")
          /\ exitCode' = exitCode /\ msg' = msg
          /\ args' = args /\ add_options' = add_options
          /\ server_cmd' = server_cmd /\ runner_cmd' = runner_cmd
          /\ marker' = marker /\ tmp' = tmp]_vars

\* C7 witness: both requests failed and the run still ended at the marker
\* inspection with code 0.
C7_Witness ==
    /\ Inspected
    /\ exitCode = 0
    /\ Len(kills) = 2
    /\ \A i \in 1..2 : ~kills[i].ok

\* C8 as stated: tmp/ and test-result/ are both deleted before the first
\* /@kill request, which precedes flag parsing and the server spawn.
C8_CleanBeforeKill ==
    /\ Before("rm_tmp", "kill")
    /\ Before("rm_result", "kill")
    /\ Before("kill", "parse")
    /\ Before("kill", "spawn_server")

\* C8 amended: tmp/ is deleted before the first /@kill request, which
\* precedes flag parsing and the server spawn; test-result/ is deleted after
\* the flags are parsed and before the server is spawned.
C8_CleanTmpKillParseCleanResult ==
    /\ Before("rm_tmp", "kill")
    /\ (Done("kill") => ~tmp)
    /\ Before("kill", "parse")
    /\ Before("kill", "spawn_server")
    /\ Before("parse", "rm_result")
    /\ Before("rm_result", "spawn_server")

\* C8 witness: the server was spawned in a run that began with a marker
\* file in test-result/.
C8_Witness == Done("spawn_server") /\ leftover # {} /\ server = "running"

\* C9: whenever the server was spawned and reached readiness, the script
\* has issued the post-run /@kill request by the time it terminates.
C9_ReadyServerIsKilled ==
    (pc = "exited" /\ Done("spawn_server") /\ line = "ready") => Len(kills) = 2

\* C10: test-result/ is removed before the server is spawned and the script
\* creates no marker, so no leftover marker is seen at the final inspection
\* and exit code 1 rests on a result.failed written after the removal.
C10_NoStaleMarker ==
    /\ Before("rm_result", "spawn_server")
    /\ (Done("rm_result") => \A f \in MarkerFiles : marker[f] # "stale")
    /\ (runnerSpawns = 0 /\ Done("rm_result") => \A f \in MarkerFiles : marker[f] = "absent")
    /\ (Inspected /\ exitCode = 1 => marker["result.failed"] = "fresh")

\* C10 witness: a previous run left result.failed behind and this run ends
\* at the inspection with code 0.
C10_Witness ==
    /\ "result.failed" \in leftover
    /\ Inspected
    /\ exitCode = 0
    /\ marker["result.failed"] = "absent"
====
